---------------------------- MODULE Spec2Model ----------------------------
(***************************************************************************)
(* zod-bignumber: the ZodBigNumber schema type (src/src/index.ts) and its  *)
(* creation parameters (src/src/utils.ts).                                 *)
(*                                                                         *)
(* Text is a sequence of one-character strings, so that parsing and        *)
(* formatting are computed character by character.  The arithmetic engine  *)
(* (bignumber.js, default configuration) is modelled at the places where   *)
(* index.ts calls it: the constructor, the comparisons, isInteger,         *)
(* isFinite, modulo and toString.  A parsed number is a record             *)
(*   [k |-> "nan" | "inf" | "fin", s |-> sign, c |-> decimal digits,       *)
(*    e |-> exponent of the first digit]                                   *)
(* which is the engine's own (s, c, e) representation with the             *)
(* coefficient kept digit by digit.                                        *)
(*                                                                         *)
(* A character that a TLA+ string cannot hold is written by the name of   *)
(* its code point ("U+00A0").  Input text ranges over NumericTexts and     *)
(* NonNumericTexts below.                                                  *)
(***************************************************************************)
EXTENDS Integers, Sequences, FiniteSets, TLC

(***************************************************************************)
(* Characters and small helpers on text                                    *)
(***************************************************************************)
DigitChars == {"0", "1", "2", "3", "4", "5", "6", "7", "8", "9"}

DigitVal(ch) ==
  CASE ch = "0" -> 0 [] ch = "1" -> 1 [] ch = "2" -> 2 [] ch = "3" -> 3
    [] ch = "4" -> 4 [] ch = "5" -> 5 [] ch = "6" -> 6 [] ch = "7" -> 7
    [] ch = "8" -> 8 [] ch = "9" -> 9

\* The engine's digit alphabet (bases up to 36).
ALPHABET ==
  << "0", "1", "2", "3", "4", "5", "6", "7", "8", "9", "a", "b", "c", "d",
     "e", "f", "g", "h", "i", "j", "k", "l", "m", "n", "o", "p", "q", "r",
     "s", "t", "u", "v", "w", "x", "y", "z" >>

LowerLetters == SubSeq(ALPHABET, 11, 36)
UpperLetters ==
  << "A", "B", "C", "D", "E", "F", "G", "H", "I", "J", "K", "L", "M", "N",
     "O", "P", "Q", "R", "S", "T", "U", "V", "W", "X", "Y", "Z" >>

\* The characters that \w matches.
WordChars ==
  DigitChars \cup {LowerLetters[i] : i \in 1..26}
             \cup {UpperLetters[i] : i \in 1..26} \cup {"_"}

\* The characters that \s matches.
WhiteSpace ==
  {" ", "\t", "\n", "\r", "\f", "U+000B", "U+00A0", "U+1680", "U+2000",
   "U+2001", "U+2002", "U+2003", "U+2004", "U+2005", "U+2006", "U+2007",
   "U+2008", "U+2009", "U+200A", "U+2028", "U+2029", "U+202F", "U+205F",
   "U+3000", "U+FEFF"}

\* String.prototype.toLowerCase and toUpperCase, on the letters A-Z, a-z.
LetterIndex(letters, ch) == CHOOSE i \in 1..26 : letters[i] = ch
IsLetterOf(letters, ch) == \E i \in 1..26 : letters[i] = ch
toLowerCase(str) ==
  [i \in 1..Len(str) |->
     IF IsLetterOf(UpperLetters, str[i])
       THEN LowerLetters[LetterIndex(UpperLetters, str[i])] ELSE str[i]]
toUpperCase(str) ==
  [i \in 1..Len(str) |->
     IF IsLetterOf(LowerLetters, str[i])
       THEN UpperLetters[LetterIndex(LowerLetters, str[i])] ELSE str[i]]

IsDigits(s) == \A i \in 1..Len(s) : s[i] \in DigitChars

\* 1-based index of the first character of s that is in chars, 0 when none.
IndexOf(s, chars) ==
  IF \E i \in 1..Len(s) : s[i] \in chars
    THEN CHOOSE i \in 1..Len(s) :
           s[i] \in chars /\ \A j \in 1..(i - 1) : s[j] \notin chars
    ELSE 0

Drop(s, n) == SubSeq(s, n + 1, Len(s))
Take(s, n) == SubSeq(s, 1, n)

Zeros(n) == [i \in 1..n |-> "0"]

\* Number of leading / trailing "0" characters.
LeadingZeros(s) ==
  IF \E i \in 1..Len(s) : s[i] # "0"
    THEN (CHOOSE i \in 1..Len(s) :
            s[i] # "0" /\ \A j \in 1..(i - 1) : s[j] = "0") - 1
    ELSE Len(s)

TrailingZeros(s) ==
  IF \E i \in 1..Len(s) : s[i] # "0"
    THEN Len(s) - (CHOOSE i \in 1..Len(s) :
                     s[i] # "0" /\ \A j \in (i + 1)..Len(s) : s[j] = "0")
    ELSE Len(s)

\* Decimal text of a natural number and back.
RECURSIVE NatToText(_)
NatToText(n) ==
  IF n < 10 THEN << ALPHABET[n + 1] >>
  ELSE NatToText(n \div 10) \o << ALPHABET[(n % 10) + 1] >>

RECURSIVE TextToNat(_)
TextToNat(s) ==
  IF s = << >> THEN 0
  ELSE 10 * TextToNat(Take(s, Len(s) - 1)) + DigitVal(s[Len(s)])

STR_Infinity == << "I", "n", "f", "i", "n", "i", "t", "y" >>
STR_NaN == << "N", "a", "N" >>

(***************************************************************************)
(* The arithmetic engine's configuration defaults                          *)
(***************************************************************************)
DECIMAL_PLACES == 20
TO_EXP_NEG == -7
TO_EXP_POS == 21
MIN_EXP == -10000000
MAX_EXP == 10000000

(***************************************************************************)
(* new BigNumber(text)                                                     *)
(***************************************************************************)
BN_NaN == [k |-> "nan", s |-> 0, c |-> << >>, e |-> 0]
BN_Inf(sign) == [k |-> "inf", s |-> sign, c |-> << >>, e |-> 0]
BN_Fin(sign, digits, exp) == [k |-> "fin", s |-> sign, c |-> digits, e |-> exp]
BN_Zero(sign) == BN_Fin(sign, << "0" >>, 0)

\* isNumeric = /^-?(?:\d+(?:\.\d*)?|\.\d+)(?:e[+-]?\d+)?$/i
MantissaOk(m) ==
  LET d == IndexOf(m, {"."}) IN
  IF d = 0 THEN Len(m) > 0 /\ IsDigits(m)
  ELSE LET a == Take(m, d - 1)
           b == Drop(m, d) IN
       IsDigits(a) /\ IsDigits(b) /\ (Len(a) > 0 \/ Len(b) > 0)

ExponentOk(x) ==
  LET ds == IF Len(x) > 0 /\ x[1] \in {"+", "-"} THEN Drop(x, 1) ELSE x IN
  Len(ds) > 0 /\ IsDigits(ds)

isNumeric(str) ==
  LET u == IF Len(str) > 0 /\ str[1] = "-" THEN Drop(str, 1) ELSE str
      i == IndexOf(u, {"e", "E"}) IN
  IF i = 0 THEN MantissaOk(u)
  ELSE MantissaOk(Take(u, i - 1)) /\ ExponentOk(Drop(u, i))

\* The digits of the exponent part without its sign and leading zeros.
ExponentDigits(x) ==
  LET ds == IF Len(x) > 0 /\ x[1] \in {"+", "-"} THEN Drop(x, 1) ELSE x IN
  Drop(ds, LeadingZeros(ds))

\* +str.slice(i + 1): the exponent part as a number, at its value.
\* (The constructor applies it to exponents that ExponentOutOfRange does
\* not settle, which have at most 9 digits.)
ExponentValue(x) ==
  IF Len(x) > 0 /\ x[1] = "-" THEN 0 - TextToNat(ExponentDigits(x))
  ELSE TextToNat(ExponentDigits(x))

\* An exponent written with more than 9 digits has a magnitude of at least
\* 10^9: added to the position of the point and to the number of leading
\* zeros of a text (both below the length of the text), it is far beyond
\* MAX_EXP, or far below MIN_EXP, whatever the mantissa.
ExponentOutOfRange(x) == Len(ExponentDigits(x)) > 9

\* The constructor's path for text that passes isNumeric.
BigNumberNumeric(str) ==
  LET sign == IF str[1] = "-" THEN -1 ELSE 1
      u == IF str[1] = "-" THEN Drop(str, 1) ELSE str
      ei == IndexOf(u, {"e", "E"})
      mant == IF ei = 0 THEN u ELSE Take(u, ei - 1)
      dot == IndexOf(mant, {"."})
      digits == IF dot = 0 THEN mant ELSE Take(mant, dot - 1) \o Drop(mant, dot)
      \* position of the decimal point, counted in digits
      e0 == IF dot = 0 THEN Len(mant) ELSE dot - 1
      e1 == IF ei = 0 THEN e0 ELSE e0 + ExponentValue(Drop(u, ei))
      lz == LeadingZeros(digits)
      tz == TrailingZeros(digits)
      e == e1 - lz - 1 IN
  IF lz = Len(digits) THEN BN_Zero(sign)
  ELSE IF ei # 0 /\ ExponentOutOfRange(Drop(u, ei))
    THEN (IF u[ei + 1] = "-" THEN BN_Zero(sign) ELSE BN_Inf(sign))
  ELSE IF e > MAX_EXP THEN BN_Inf(sign)
  ELSE IF e < MIN_EXP THEN BN_Zero(sign)
  ELSE BN_Fin(sign, SubSeq(digits, lz + 1, Len(digits) - tz), e)

\* whitespaceOrPlus = /^\s*\+(?=[\w.])|^\s+|\s+$/g, removed from the text.
StripWhitespaceOrPlus(str) ==
  LET lead == IF \E i \in 1..Len(str) : str[i] \notin WhiteSpace
                THEN (CHOOSE i \in 1..Len(str) :
                        str[i] \notin WhiteSpace /\ \A j \in 1..(i - 1) : str[j] \in WhiteSpace) - 1
                ELSE Len(str)
      plus == /\ Len(str) >= lead + 2
              /\ str[lead + 1] = "+"
              /\ str[lead + 2] \in WordChars \cup {"."}
      a == IF plus THEN Drop(str, lead + 1) ELSE Drop(str, lead)
      trail == IF \E i \in 1..Len(a) : a[i] \notin WhiteSpace
                 THEN Len(a) - (CHOOSE i \in 1..Len(a) :
                        a[i] \notin WhiteSpace /\ \A j \in (i + 1)..Len(a) : a[j] \in WhiteSpace)
                 ELSE Len(a) IN
  Take(a, Len(a) - trail)

(***************************************************************************)
(* Comparisons, isInteger, isFinite, modulo                                *)
(***************************************************************************)
IsZeroBN(x) == x.k = "fin" /\ x.c[1] = "0"

\* Digit-by-digit comparison of two coefficients: -1, 0 or 1.
CompareDigits(xc, yc) ==
  LET n == IF Len(xc) < Len(yc) THEN Len(xc) ELSE Len(yc) IN
  IF \E i \in 1..n : xc[i] # yc[i]
    THEN LET i == CHOOSE i \in 1..n :
                    xc[i] # yc[i] /\ \A j \in 1..(i - 1) : xc[j] = yc[j] IN
         IF DigitVal(xc[i]) > DigitVal(yc[i]) THEN 1 ELSE -1
    ELSE IF Len(xc) = Len(yc) THEN 0
    ELSE IF Len(xc) > Len(yc) THEN 1 ELSE -1

\* compare(x, y): -1, 0, 1, or 2 for the engine's null (either is NaN).
compare(x, y) ==
  IF x.k = "nan" \/ y.k = "nan" THEN 2
  ELSE IF IsZeroBN(x) \/ IsZeroBN(y)
    THEN (IF IsZeroBN(x) THEN (IF IsZeroBN(y) THEN 0 ELSE 0 - y.s) ELSE x.s)
  ELSE IF x.s # y.s THEN x.s
  ELSE IF x.k = "inf" \/ y.k = "inf"
    THEN (IF x.k = y.k THEN 0
          ELSE IF (x.k = "inf") # (x.s < 0) THEN 1 ELSE -1)
  ELSE IF x.e # y.e
    THEN (IF (x.e > y.e) # (x.s < 0) THEN 1 ELSE -1)
  ELSE x.s * CompareDigits(x.c, y.c)

BN_lt(x, y) == compare(x, y) = -1
\* A variant of lte that holds only for strictly smaller values.
BN_lteStrict(x, y) == compare(x, y) = -1
BN_lte(x, y) == compare(x, y) \in {-1, 0}
BN_gt(x, y) == compare(x, y) = 1
BN_gte(x, y) == compare(x, y) \in {1, 0}

isNaN(x) == x.k = "nan"
\* A variant of isFinite that holds for every value that is a number.
isNumber(x) == x.k # "nan"
isFinite(x) == x.k = "fin"
\* A variant of isInteger that holds for the infinities too.
isIntegerOrInfinite(x) == x.k = "inf" \/ (x.k = "fin" /\ x.e >= Len(x.c) - 1)
isInteger(x) == x.k = "fin" /\ x.e >= Len(x.c) - 1

\* 10^t modulo m, by repeated squaring (m below 10^4).
RECURSIVE PowTenMod(_, _)
PowTenMod(t, m) ==
  IF t = 0 THEN 1 % m
  ELSE LET h == PowTenMod(t \div 2, m)
           sq == (h * h) % m IN
       IF t % 2 = 0 THEN sq ELSE (10 * sq) % m

\* The digits ds[lo..hi] read as a natural number, modulo m.
RECURSIVE DigitsModRange(_, _, _, _)
DigitsModRange(ds, lo, hi, m) ==
  IF lo > hi THEN 0
  ELSE IF lo = hi THEN DigitVal(ds[lo]) % m
  ELSE LET mid == (lo + hi) \div 2 IN
       (DigitsModRange(ds, lo, mid, m) * PowTenMod(hi - mid, m)
          + DigitsModRange(ds, mid + 1, hi, m)) % m

DigitsMod(ds, m) == DigitsModRange(ds, 1, Len(ds), m)

\* A variant of moduloIsZero that divides the coefficients and ignores the
\* exponents.
moduloCoefficientIsZero(x, y) ==
  /\ x.k = "fin" /\ y.k = "fin" /\ ~IsZeroBN(y)
  /\ DigitsMod(x.c, TextToNat(y.c)) = 0

\* x.modulo(y).isZero().  modulo is NaN when x is not finite or y is NaN
\* or zero, x itself when y is infinite or x is zero, and otherwise the
\* exact remainder x - trunc(x / y) * y.  With x = X * 10^kx and
\* y = Y * 10^ky (X, Y the coefficients, which end in a non-zero digit)
\* the remainder is zero iff kx >= ky and Y divides X * 10^(kx - ky).
\* Divisor coefficients are taken to have at most 4 digits.
moduloIsZero(x, y) ==
  IF x.k # "fin" \/ y.k = "nan" \/ IsZeroBN(y) THEN FALSE
  ELSE IF y.k = "inf" \/ IsZeroBN(x) THEN IsZeroBN(x)
  ELSE LET kx == x.e - Len(x.c) + 1
           ky == y.e - Len(y.c) + 1
           Y == TextToNat(y.c) IN
       /\ kx >= ky
       /\ (DigitsMod(x.c, Y) * PowTenMod(kx - ky, Y)) % Y = 0

(***************************************************************************)
(* toString(base)                                                          *)
(***************************************************************************)
toFixedPoint(str, e) ==
  IF e < 0 THEN << "0", "." >> \o Zeros(0 - e - 1) \o str
  ELSE IF e + 1 > Len(str) THEN str \o Zeros(e + 1 - Len(str))
  ELSE IF e + 1 < Len(str) THEN Take(str, e + 1) \o << "." >> \o Drop(str, e + 1)
  ELSE str

toExponential(str, e) ==
  (IF Len(str) > 1 THEN << str[1], "." >> \o Drop(str, 1) ELSE str)
    \o (IF e < 0 THEN << "e", "-" >> \o NatToText(0 - e)
        ELSE << "e", "+" >> \o NatToText(e))

\* Add one to a big-endian digit sequence in base b; the result is
\* [ds, carry] with carry = 1 when every digit was b - 1.
Increment(ds, b) ==
  IF \E i \in 1..Len(ds) : ds[i] # b - 1
    THEN LET p == CHOOSE i \in 1..Len(ds) :
                    ds[i] # b - 1 /\ \A j \in (i + 1)..Len(ds) : ds[j] = b - 1 IN
         [ds |-> [i \in 1..Len(ds) |->
                    IF i < p THEN ds[i] ELSE IF i = p THEN ds[i] + 1 ELSE 0],
          carry |-> 0]
    ELSE [ds |-> [i \in 1..Len(ds) |-> 0], carry |-> 1]

DigitsOf(str) == [i \in 1..Len(str) |-> DigitVal(str[i])]
CharsOf(ds) == [i \in 1..Len(ds) |-> ALPHABET[ds[i] + 1]]

\* A coefficient without its trailing zeros.
StripTrailingZeros(ds) == Take(ds, Len(ds) - TrailingZeros(ds))

\* x with its first sd digits rounded up, inc being those digits plus one.
roundUp(x, inc) ==
  IF inc.carry = 1 THEN BN_Fin(x.s, << "1" >>, x.e + 1)
  ELSE BN_Fin(x.s, StripTrailingZeros(CharsOf(inc.ds)), x.e)

\* round(x, sd, ROUND_HALF_UP): x rounded to sd significant digits.
round(x, sd) ==
  IF x.k # "fin" \/ sd >= Len(x.c) THEN x
  ELSE IF sd < 0 THEN BN_Zero(x.s)
  ELSE IF sd = 0
    THEN (IF DigitVal(x.c[1]) >= 5 THEN BN_Fin(x.s, << "1" >>, x.e + 1)
          ELSE BN_Zero(x.s))
  ELSE IF DigitVal(x.c[sd + 1]) >= 5
    THEN roundUp(x, Increment(DigitsOf(Take(x.c, sd)), 10))
  ELSE BN_Fin(x.s, StripTrailingZeros(Take(x.c, sd)), x.e)

\* Little-endian digits (base b) of arr * m + c.
RECURSIVE MulAddLE(_, _, _, _)
MulAddLE(arr, m, c, b) ==
  IF arr = << >>
    THEN (IF c = 0 THEN << >> ELSE << c % b >> \o MulAddLE(<< >>, m, c \div b, b))
    ELSE LET v == arr[1] * m + c IN
         << v % b >> \o MulAddLE(Tail(arr), m, v \div b, b)

\* toBaseOut: decimal digit text to big-endian digits in base b
\* (<< >> for zero).  The text is taken ChunkDigits decimal digits at a
\* time and the result is accumulated LimbDigits(b) digits at a time
\* (limbs in base b^LimbDigits(b)), then spread out.
RECURSIVE Pow(_, _)
Pow(b, j) == IF j = 0 THEN 1 ELSE b * Pow(b, j - 1)

ChunkDigits == 4
LimbLimit == 200000

RECURSIVE LimbDigitsFrom(_, _, _)
LimbDigitsFrom(b, p, j) ==
  IF p * b > LimbLimit THEN j ELSE LimbDigitsFrom(b, p * b, j + 1)

LimbDigits(b) == LimbDigitsFrom(b, 1, 0)

\* The first n chunks of str as limbs in base B, least significant first.
RECURSIVE toLimbsLE(_, _, _)
toLimbsLE(str, n, B) ==
  IF n = 0 THEN << >>
  ELSE MulAddLE(toLimbsLE(str, n - 1, B), Pow(10, ChunkDigits),
                TextToNat(SubSeq(str, ChunkDigits * (n - 1) + 1, ChunkDigits * n)),
                B)

\* The j base-b digits of each limb, most significant limb first.
Spread(limbsLE, b, j) ==
  LET n == j * Len(limbsLE) IN
  [i \in 1..n |->
     LET q == n - i IN (limbsLE[(q \div j) + 1] \div Pow(b, q % j)) % b]

\* How many "0" make the length of str a multiple of ChunkDigits.
ChunkPad(str) == (ChunkDigits - (Len(str) % ChunkDigits)) % ChunkDigits

\* Digits without the leading / trailing zero digits.
DropLeadingZeroDigits(ds) ==
  IF \E i \in 1..Len(ds) : ds[i] # 0
    THEN Drop(ds, (CHOOSE i \in 1..Len(ds) :
                     ds[i] # 0 /\ \A j \in 1..(i - 1) : ds[j] = 0) - 1)
    ELSE << >>

DropTrailingZeroDigits(ds) ==
  IF \E i \in 1..Len(ds) : ds[i] # 0
    THEN Take(ds, CHOOSE i \in 1..Len(ds) :
                    ds[i] # 0 /\ \A j \in (i + 1)..Len(ds) : ds[j] = 0)
    ELSE << >>

\* padded is a whole number of chunks, limbs hold j digits in base b.
toBaseOutLimbs(padded, b, j) ==
  DropLeadingZeroDigits(
    Spread(toLimbsLE(padded, Len(padded) \div ChunkDigits, Pow(b, j)), b, j))

toBaseOut(str, b) ==
  toBaseOutLimbs(Zeros(ChunkPad(str)) \o str, b, LimbDigits(b))

\* The first steps * j digits in base b of a fraction given as nl
\* little-endian limbs in base 10^ChunkDigits: each step multiplies the
\* fraction by b^j and takes the integer part as j digits.
RECURSIVE FractionSteps(_, _, _, _, _)
PadTo(p, n) == [i \in 1..n |-> IF i <= Len(p) THEN p[i] ELSE 0]

\* One step, p being the nl + 2 limbs of the fraction times b^j.
FractionStep(p, nl, b, j, steps) ==
  Spread(<< p[nl + 1] + Pow(10, ChunkDigits) * p[nl + 2] >>, b, j)
    \o FractionSteps(SubSeq(p, 1, nl), nl, b, j, steps - 1)

FractionSteps(fLE, nl, b, j, steps) ==
  IF steps = 0 THEN << >>
  ELSE FractionStep(PadTo(MulAddLE(fLE, Pow(b, j), 0, Pow(10, ChunkDigits)),
                          nl + 2),
                    nl, b, j, steps)

\* The first n digits in base b of the fraction 0.F (F decimal digits).
\* padded is nl chunks, limbs hold j digits in base b.
FractionDigitsLimbs(padded, nl, b, j, n) ==
  Take(FractionSteps([i \in 1..nl |->
                        TextToNat(SubSeq(padded, ChunkDigits * (nl - i) + 1,
                                         ChunkDigits * (nl - i + 1)))],
                     nl, b, j, (n + j - 1) \div j),
       n)

FractionDigits(F, b, n) ==
  FractionDigitsLimbs(F \o Zeros(ChunkPad(F)),
                      (Len(F) + ChunkPad(F)) \div ChunkDigits,
                      b, LimbDigits(b), n)

\* convertBase(str, 10, b, sign, true): the decimal fixed-point text
\* (integer digits I, fraction digits F) in base b, rounded half up to
\* DECIMAL_PLACES fraction digits.
\* The digits ds plus one, a carry out of the first digit kept in front.
IncrementCarry(inc) == IF inc.carry = 1 THEN << 1 >> \o inc.ds ELSE inc.ds

\* The text of the integer digits and the fraction digits.
convertBaseText(intPart, frac) ==
  (IF intPart = << >> THEN << "0" >> ELSE CharsOf(intPart))
    \o (IF frac = << >> THEN << >> ELSE << "." >> \o CharsOf(frac))

\* ds ends in nFrac fraction digits.
convertBaseSplit(ds, nFrac) ==
  convertBaseText(Take(ds, Len(ds) - nFrac),
                  DropTrailingZeroDigits(Drop(ds, Len(ds) - nFrac)))

\* int: the integer digits; fr: DECIMAL_PLACES + 1 fraction digits, of
\* which nFrac are kept (0 when there is no fraction).
convertBaseRound(int, fr, nFrac, b) ==
  convertBaseSplit(IF nFrac > 0 /\ 2 * fr[DECIMAL_PLACES + 1] >= b
                     THEN IncrementCarry(Increment(int \o SubSeq(fr, 1, nFrac), b))
                     ELSE int \o SubSeq(fr, 1, nFrac),
                   nFrac)

convertBase(I, F, b) ==
  convertBaseRound(toBaseOut(I, b), FractionDigits(F, b, DECIMAL_PLACES + 1),
                   IF F = << >> THEN 0 ELSE DECIMAL_PLACES, b)

\* intCheck(b, 2, ALPHABET.length, 'Base')
BaseInRange(b) == b \in 2..Len(ALPHABET)

\* The fixed-point text of the finite n with its sign.
toFixedSigned(n) ==
  (IF n.s < 0 /\ n.c[1] # "0" THEN << "-" >> ELSE << >>)
    \o toFixedPoint(n.c, n.e)

\* BigNumber.prototype.toString(b).  A base is << >> for null/undefined
\* and << n >> for the number n; defined for b = << >> or
\* BaseInRange(b[1]).
toString(x, b) ==
  IF x.k = "nan" THEN STR_NaN
  ELSE IF x.k = "inf"
    THEN (IF x.s < 0 THEN << "-" >> ELSE << >>) \o STR_Infinity
  ELSE IF b = << >>
    THEN (IF x.s < 0 /\ x.c[1] # "0" THEN << "-" >> ELSE << >>)
           \o (IF x.e <= TO_EXP_NEG \/ x.e >= TO_EXP_POS
                 THEN toExponential(x.c, x.e)
                 ELSE toFixedPoint(x.c, x.e))
  ELSE IF b = << 10 >>
    THEN toFixedSigned(round(x, DECIMAL_PLACES + x.e + 1))
  ELSE (IF x.s < 0 /\ x.c[1] # "0" THEN << "-" >> ELSE << >>)
         \o convertBase(IF x.e < 0 THEN << >>
                        ELSE IF x.e + 1 >= Len(x.c)
                          THEN x.c \o Zeros(x.e + 1 - Len(x.c))
                        ELSE Take(x.c, x.e + 1),
                        IF x.e < 0 THEN Zeros(0 - x.e - 1) \o x.c
                        ELSE IF x.e + 1 >= Len(x.c) THEN << >>
                        ELSE Drop(x.c, x.e + 1),
                        b[1])

(***************************************************************************)
(* new BigNumber(text): radix prefixes and the constructor                 *)
(***************************************************************************)
\* basePrefix = /^(-?)0([xbo])(?=\w[\w.]*$)/i: the base that the prefix of
\* s names, 0 when s has no prefix.
PrefixBaseAt(s, n) ==
  IF /\ Len(s) >= n + 3
     /\ s[n + 1] = "0"
     /\ s[n + 2] \in {"x", "X", "b", "B", "o", "O"}
     /\ s[n + 3] \in WordChars
     /\ \A i \in (n + 4)..Len(s) : s[i] \in WordChars \cup {"."}
    THEN (IF s[n + 2] \in {"x", "X"} THEN 16
          ELSE IF s[n + 2] \in {"b", "B"} THEN 2 ELSE 8)
    ELSE 0

PrefixBase(s) == PrefixBaseAt(s, IF Len(s) > 0 /\ s[1] = "-" THEN 1 ELSE 0)

\* s with its prefix replaced by the sign.
StripPrefix(s) == IF s[1] = "-" THEN << "-" >> \o Drop(s, 3) ELSE Drop(s, 2)

\* dotAfter = /^([^.]+)\.$/ replaced by '$1', then
\* dotBefore = /^\.([^.]+)$/ replaced by '0.$1'.
DotAfter(s) ==
  IF Len(s) >= 2 /\ s[Len(s)] = "." /\ IndexOf(s, {"."}) = Len(s)
    THEN Take(s, Len(s) - 1) ELSE s
DotBefore(s) ==
  IF Len(s) >= 2 /\ s[1] = "." /\ IndexOf(Drop(s, 1), {"."}) = 0
    THEN << "0" >> \o s ELSE s

\* The value of a digit of the engine's alphabet.
AlphabetVal(ch) == (CHOOSE i \in 1..Len(ALPHABET) : ALPHABET[i] = ch) - 1
BaseAlphabet(b) == {ALPHABET[i] : i \in 1..b}

\* The constructor's scan of str as a base b number stops at the i-th
\* character: it is no digit of the base, and it is not the first '.' of
\* str after a first character.
StopsAt(str, b, i) ==
  /\ str[i] \notin BaseAlphabet(b)
  /\ (str[i] = ".") => (i = 1 \/ \E j \in 1..(i - 1) : str[j] = ".")

ValidInBase(str, b) == \A i \in 1..Len(str) : ~StopsAt(str, b, i)

\* Where the scan stops first at a character other than '.', the text is
\* taken once in the other case, when it is all in one case ('FF' as 'ff').
CaseChanged(str, b) ==
  IF ValidInBase(str, b)
       \/ str[CHOOSE i \in 1..Len(str) :
                 StopsAt(str, b, i) /\ \A j \in 1..(i - 1) : ~StopsAt(str, b, j)]
            = "."
    THEN str
  ELSE IF str = toUpperCase(str) THEN toLowerCase(str)
  ELSE IF str = toLowerCase(str) THEN toUpperCase(str)
  ELSE str

\* Little-endian limbs (base 10^ChunkDigits) of the number that the first n
\* digits of ds write in base b.
RECURSIVE FromBaseLimbs(_, _, _)
FromBaseLimbs(ds, n, b) ==
  IF n = 0 THEN << >>
  ELSE MulAddLE(FromBaseLimbs(ds, n - 1, b), b, AlphabetVal(ds[n]),
                Pow(10, ChunkDigits))

\* The limbs times m^f.
RECURSIVE TimesPower(_, _, _)
TimesPower(limbsLE, m, f) ==
  IF f = 0 THEN limbsLE
  ELSE MulAddLE(TimesPower(limbsLE, m, f - 1), m, 0, Pow(10, ChunkDigits))

\* The number that the decimal digits D write with the last t of them
\* after the point: zero, or the digits without leading and trailing zeros
\* and the exponent of the first one.
FromDecimalDigits(sign, D, t) ==
  IF LeadingZeros(D) = Len(D) THEN BN_Zero(sign)
  ELSE BN_Fin(sign,
              SubSeq(D, LeadingZeros(D) + 1, Len(D) - TrailingZeros(D)),
              Len(D) - t - LeadingZeros(D) - 1)

\* x rounded half up to DECIMAL_PLACES decimal places.
RoundToDecimalPlaces(x) ==
  IF x.k = "fin" THEN round(x, DECIMAL_PLACES + x.e + 1) ELSE x

\* convertBase(str, b, 10, sign) and the constructor's reading of its
\* result, for b a power of two (b = 2^bits): ds are the digits of str
\* without the '.', f of them after it.  The number is N / b^f, which is
\* N * 5^(bits * f) / 10^(bits * f) with N the digits read as an integer,
\* rounded half up to DECIMAL_PLACES decimal places.
FromBaseDigits(sign, ds, f, b, bits) ==
  RoundToDecimalPlaces(
    FromDecimalDigits(
      sign,
      CharsOf(Spread(TimesPower(FromBaseLimbs(ds, Len(ds), b), Pow(5, bits), f),
                     10, ChunkDigits)),
      bits * f))

\* str, valid in base b (16 = 2^4, 8 = 2^3 or 2), as a number.
FromBase(sign, str, b) ==
  IF IndexOf(str, {"."}) = 0
    THEN FromBaseDigits(sign, str, 0, b,
                        IF b = 16 THEN 4 ELSE IF b = 8 THEN 3 ELSE 1)
    ELSE FromBaseDigits(sign,
                        Take(str, IndexOf(str, {"."}) - 1)
                          \o Drop(str, IndexOf(str, {"."})),
                        Len(str) - IndexOf(str, {"."}), b,
                        IF b = 16 THEN 4 ELSE IF b = 8 THEN 3 ELSE 1)

\* new BigNumber(str, b) for text and b one of 16, 2, 8, the bases that a
\* prefix names: [threw, bn].  Text that is no base b number goes to
\* parseNumeric with the base, which throws '[BigNumber Error] Not a base
\* b number' with the toggle truthy.
RECURSIVE BigNumberInBase(_, _, _)

\* parseNumeric(x, str, false, b) once whitespaceOrPlus is removed (s).
parseNumericInBaseStripped(str, s, b, debugOn) ==
  IF s = STR_Infinity THEN [threw |-> FALSE, bn |-> BN_Inf(1)]
  ELSE IF s = << "-" >> \o STR_Infinity
    THEN [threw |-> FALSE, bn |-> BN_Inf(-1)]
  ELSE IF s = STR_NaN \/ s = << "-" >> \o STR_NaN
    THEN [threw |-> FALSE, bn |-> BN_NaN]
  ELSE IF DotBefore(DotAfter(IF PrefixBase(s) = b THEN StripPrefix(s) ELSE s))
            # str
    THEN BigNumberInBase(
           DotBefore(DotAfter(IF PrefixBase(s) = b THEN StripPrefix(s) ELSE s)),
           b, debugOn)
  ELSE [threw |-> debugOn, bn |-> BN_NaN]

\* The constructor once the sign is taken off and the case settled (v).
BigNumberInBaseScanned(str, sign, v, b, debugOn) ==
  IF ValidInBase(v, b) THEN [threw |-> FALSE, bn |-> FromBase(sign, v, b)]
  ELSE parseNumericInBaseStripped(str, StripWhitespaceOrPlus(str), b, debugOn)

BigNumberInBase(str, b, debugOn) ==
  IF Len(str) > 0 /\ str[1] = "-"
    THEN BigNumberInBaseScanned(str, -1, CaseChanged(Drop(str, 1), b), b,
                                debugOn)
    ELSE BigNumberInBaseScanned(str, 1, CaseChanged(str, b), b, debugOn)

\* new BigNumber(str) for text.  The result is [threw, bn]: with the
\* ambient DEBUG toggle truthy, text that is no number makes the
\* constructor throw '[BigNumber Error] Not a number: ...'.
RECURSIVE BigNumber(_, _)

\* parseNumeric(x, str, false) once whitespaceOrPlus is removed (s).
parseNumericStripped(str, s, debugOn) ==
  IF s = STR_Infinity THEN [threw |-> FALSE, bn |-> BN_Inf(1)]
  ELSE IF s = << "-" >> \o STR_Infinity
    THEN [threw |-> FALSE, bn |-> BN_Inf(-1)]
  ELSE IF s = STR_NaN \/ s = << "-" >> \o STR_NaN
    THEN [threw |-> FALSE, bn |-> BN_NaN]
  ELSE IF PrefixBase(s) # 0
    THEN BigNumberInBase(StripPrefix(s), PrefixBase(s), debugOn)
  ELSE IF s # str THEN BigNumber(s, debugOn)
  ELSE [threw |-> debugOn, bn |-> BN_NaN]

BigNumber(str, debugOn) ==
  IF isNumeric(str) THEN [threw |-> FALSE, bn |-> BigNumberNumeric(str)]
  ELSE parseNumericStripped(str, StripWhitespaceOrPlus(str), debugOn)

(***************************************************************************)
(* Input data, as JavaScript values                                        *)
(*                                                                         *)
(* A value is [kind, text]: kind says what the value is, text is what      *)
(* String(value) yields (for a string, the string itself).                 *)
(***************************************************************************)
Str(text) == [kind |-> "string", text |-> text]

\* Number::toString of the finite non-zero number sign * 0.d1..dk * 10^n
\* (digits = d1..dk, the shortest digits that identify the number).
NumberToString(sign, digits, n) ==
  LET k == Len(digits) IN
  (IF sign < 0 THEN << "-" >> ELSE << >>) \o
    (IF k <= n /\ n <= 21 THEN digits \o Zeros(n - k)
     ELSE IF 0 < n /\ n <= 21 THEN Take(digits, n) \o << "." >> \o Drop(digits, n)
     ELSE IF -6 < n /\ n <= 0 THEN << "0", "." >> \o Zeros(0 - n) \o digits
     ELSE (IF k = 1 THEN digits ELSE << digits[1], "." >> \o Drop(digits, 1))
            \o (IF n - 1 < 0 THEN << "e", "-" >> \o NatToText(1 - n)
                ELSE << "e", "+" >> \o NatToText(n - 1)))

Num(sign, digits, n) ==
  [kind |-> "number", text |-> NumberToString(sign, digits, n)]
NumZero == [kind |-> "number", text |-> << "0" >>]
NumNaN == [kind |-> "NaN", text |-> STR_NaN]
Undefined ==
  [kind |-> "undefined",
   text |-> << "u", "n", "d", "e", "f", "i", "n", "e", "d" >>]
Null == [kind |-> "null", text |-> << "n", "u", "l", "l" >>]
PlainObject ==
  [kind |-> "object",
   text |-> << "[", "o", "b", "j", "e", "c", "t", " ",
               "O", "b", "j", "e", "c", "t", "]" >>]
\* A BigNumber instance: String() is its toString() without a base.
BigNumberInstance(text) ==
  [kind |-> "BigNumber", text |-> toString(BigNumber(text, FALSE).bn, << >>)]

\* z.getParsedType(data)
getParsedType(data) ==
  CASE data.kind = "string" -> "string"
    [] data.kind = "number" -> "number"
    [] data.kind = "NaN" -> "nan"
    [] data.kind = "undefined" -> "undefined"
    [] data.kind = "null" -> "null"
    [] data.kind = "object" -> "object"
    [] data.kind = "BigNumber" -> "object"

\* JavaScript truthiness of a value of the ambient BigNumber.DEBUG toggle
\* ("false", "true" and "null" stand for the literals, "foo" for 'foo').
Truthy(debug) == debug \in {"true", "foo"}

(***************************************************************************)
(* ZodBigNumber._parse                                                     *)
(***************************************************************************)
\* Number.MAX_SAFE_INTEGER
MAX_SAFE_INTEGER ==
  BN_Fin(1, << "9", "0", "0", "7", "1", "9", "9", "2", "5", "4", "7", "4",
               "0", "9", "9", "1" >>, 15)

\* new BigNumber(v) for the number primitive v that is finite and has
\* become n.  The constructor takes the sign off v first (v = -v for a
\* negative v); with the toggle truthy it throws '[BigNumber Error] Number
\* primitive has more than 15 significant digits' when n has more than 15
\* digits and the magnitude of v is above MAX_SAFE_INTEGER or is no
\* integer.
BigNumberOfNumber(n, debugOn) ==
  [threw |-> /\ debugOn
             /\ Len(n.c) > 15
             /\ \/ BN_gt([n EXCEPT !.s = 1], MAX_SAFE_INTEGER)
                \/ ~isInteger(n),
   bn |-> n]

\* new BigNumber(value) for a JavaScript value, as the comparisons and
\* modulo construct it from check.value: [threw, bn].  A number primitive
\* that is finite goes by its String() text without the text's checks; a
\* BigNumber instance is copied; every other value goes by its String().
BigNumberOf(value, debugOn) ==
  IF value.kind = "number" /\ isNumeric(value.text)
    THEN BigNumberOfNumber(BigNumberNumeric(value.text), debugOn)
  ELSE IF value.kind \in {"number", "NaN", "BigNumber"}
    THEN BigNumber(value.text, FALSE)
  ELSE BigNumber(value.text, debugOn)

\* A check that compares with check.value, given v = new BigNumber of
\* that value as [threw, bn]: [threw, issues] (issues has 0 or 1 element).
CheckAgainst(check, bigNumber, v) ==
  [threw |-> v.threw,
   issues |->
     IF v.threw THEN << >>
     ELSE CASE check.kind = "min" ->
                 IF (IF check.inclusive THEN BN_lt(bigNumber, v.bn)
                     ELSE BN_lte(bigNumber, v.bn))
                   THEN << [code |-> "too_small", exact |-> FALSE,
                            inclusive |-> check.inclusive,
                            message |-> check.message,
                            minimum |-> check.value,
                            type |-> "number"] >>
                   ELSE << >>
            [] check.kind = "max" ->
                 IF (IF check.inclusive THEN BN_gt(bigNumber, v.bn)
                     ELSE BN_gte(bigNumber, v.bn))
                   THEN << [code |-> "too_big", exact |-> FALSE,
                            inclusive |-> check.inclusive,
                            maximum |-> check.value,
                            message |-> check.message,
                            type |-> "number"] >>
                   ELSE << >>
            [] check.kind = "multipleOf" ->
                 IF ~moduloIsZero(bigNumber, v.bn)
                   THEN << [code |-> "not_multiple_of",
                            message |-> check.message,
                            multipleOf |-> check.value] >>
                   ELSE << >>]

\* One check of the loop: [threw, issues].
CheckIssue(check, bigNumber, debugOn) ==
  CASE check.kind = "int" ->
         [threw |-> FALSE,
          issues |-> IF ~isInteger(bigNumber)
                       THEN << [code |-> "invalid_type", expected |-> "integer",
                                message |-> check.message,
                                received |-> "float"] >>
                       ELSE << >>]
    [] check.kind \in {"min", "max", "multipleOf"} ->
         CheckAgainst(check, bigNumber, BigNumberOf(check.value, debugOn))
    [] check.kind = "finite" ->
         [threw |-> FALSE,
          issues |-> IF ~isFinite(bigNumber)
                       THEN << [code |-> "not_finite",
                                message |-> check.message] >>
                       ELSE << >>]
    [] OTHER -> [threw |-> TRUE, issues |-> << >>]

\* The loop over this._def.checks from the i-th check on, issues being
\* what the earlier checks added: the issues added, in order, the number
\* of checks evaluated, and whether a check threw (which ends the loop).
RECURSIVE ProcessChecksFrom(_, _, _, _, _)
\* A variant of the loop that ends at the first check that adds an issue.
ProcessChecksStop(checks, i, bigNumber, debugOn, issues, r) ==
  IF r.threw \/ r.issues # << >>
    THEN [threw |-> r.threw, issues |-> issues \o r.issues, evaluated |-> i]
  ELSE ProcessChecksFrom(checks, i + 1, bigNumber, debugOn, issues)

ProcessChecksNext(checks, i, bigNumber, debugOn, issues, r) ==
  IF r.threw THEN [threw |-> TRUE, issues |-> issues, evaluated |-> i]
  ELSE ProcessChecksFrom(checks, i + 1, bigNumber, debugOn, issues \o r.issues)

ProcessChecksFrom(checks, i, bigNumber, debugOn, issues) ==
  IF i > Len(checks)
    THEN [threw |-> FALSE, issues |-> issues, evaluated |-> Len(checks)]
    ELSE ProcessChecksNext(checks, i, bigNumber, debugOn, issues,
                           CheckIssue(checks[i], bigNumber, debugOn))

ProcessChecks(checks, bigNumber, debugOn) ==
  ProcessChecksFrom(checks, 1, bigNumber, debugOn, << >>)

\* _parse ended by an exception of new BigNumber(input.data).
Threw(debug) ==
  [ended |-> "threw", status |-> "none", issues |-> << >>, value |-> << >>,
   constructed |-> TRUE, evaluated |-> 0, debug |-> debug]

\* _parse ended by an exception of the loop or of the return statement:
\* the issues that the checks added before it are in the context.
ThrewAfterChecks(debug, p) ==
  [ended |-> "threw", status |-> "none", issues |-> p.issues, value |-> << >>,
   constructed |-> TRUE, evaluated |-> p.evaluated, debug |-> debug]

\* _parse from the return statement on, p being what the loop left.
\* toString throws for a finite number and a base outside 2..36.
_parseReturn(def, debug, bigNumber, p) ==
  IF p.threw
       \/ (bigNumber.k = "fin" /\ def.base # << >> /\ ~BaseInRange(def.base[1]))
    THEN ThrewAfterChecks(debug, p)
    ELSE [ended |-> "returned",
          status |-> IF p.issues = << >> THEN "valid" ELSE "dirty",
          issues |-> p.issues,
          value |-> toString(bigNumber, def.base),
          constructed |-> TRUE, evaluated |-> p.evaluated,
          debug |-> debug]

\* A variant of _parse that goes on to the checks with a value that is
\* no number.
_parseBigNumberNoAbort(def, debug, r) ==
  IF r.threw THEN Threw(debug)
  ELSE _parseReturn(def, debug, r.bn,
                    ProcessChecks(def.checks, r.bn, Truthy(debug)))

\* A variant of _parse that enables the toggle for the constructor and
\* leaves it enabled when the value is no number.
_parseBigNumberUnrestored(def, debug, r) ==
  IF ~r.threw /\ isNaN(r.bn)
    THEN [ended |-> "returned", status |-> "aborted",
          issues |-> << [code |-> "invalid_type",
                         message |-> "Not a valid big number"] >>,
          value |-> << >>, constructed |-> TRUE, evaluated |-> 0,
          debug |-> "true"]
  ELSE IF r.threw THEN Threw(debug)
  ELSE _parseReturn(def, debug, r.bn,
                    ProcessChecks(def.checks, r.bn, Truthy(debug)))

\* _parse once new BigNumber(input.data) ended as r = [threw, bn].
_parseBigNumber(def, debug, r) ==
  IF r.threw THEN Threw(debug)
  ELSE IF isNaN(r.bn)
    THEN [ended |-> "returned", status |-> "aborted",
          issues |-> << [code |-> "invalid_type",
                         message |-> "Not a valid big number"] >>,
          value |-> << >>, constructed |-> TRUE, evaluated |-> 0,
          debug |-> debug]
  ELSE _parseReturn(def, debug, r.bn,
                    ProcessChecks(def.checks, r.bn, Truthy(debug)))

\* A variant of _parse without the type gate.
_parseUngated(def, data, debug) ==
  _parseBigNumber(def, debug, BigNumber(data.text, Truthy(debug)))

\* _parse(input) on the validator definition def, with the ambient toggle
\* at debug.  ended: "returned" or "threw"; status: "aborted" (INVALID),
\* "valid" or "dirty"; issues: what was added to the context, in order;
\* value: the returned value; constructed: whether new BigNumber ran;
\* evaluated: how many checks the loop evaluated; debug: the toggle after
\* the call.
_parse(def, data, debug) ==
  IF ~def.coerce /\ data.kind # "string"
    THEN [ended |-> "returned", status |-> "aborted",
          issues |-> << [code |-> "invalid_type", expected |-> "string",
                         received |-> getParsedType(data)] >>,
          value |-> << >>, constructed |-> FALSE, evaluated |-> 0,
          debug |-> debug]
  ELSE _parseBigNumber(def, debug, BigNumber(data.text, Truthy(debug)))

\* safeParse as the caller sees it: success iff _parse returned with no
\* issue.
Success(result) == result.ended = "returned" /\ result.status = "valid"
Failure(result) == result.ended = "returned" /\ result.status # "valid"

(***************************************************************************)
(* Creation parameters and the builder                                     *)
(***************************************************************************)
\* An optional string parameter is "undefined" when absent; "" is the
\* empty string.
Falsy(x) == x \in {"undefined", ""}
Coalesce(a, b) == IF a = "undefined" THEN b ELSE a

\* processCreateParameters(parameters): [threw, errorMap].  errorMap is
\* << >> for the empty result {}, otherwise one map: the caller's, or the
\* customMap closure over required_error and invalid_type_error.
processCreateParameters(parameters) ==
  IF ~parameters.present THEN [threw |-> FALSE, errorMap |-> << >>]
  ELSE IF parameters.errorMap # "undefined"
            /\ ~Falsy(Coalesce(parameters.invalid_type_error,
                               parameters.required_error))
    THEN [threw |-> TRUE, errorMap |-> << >>]
  ELSE IF parameters.errorMap # "undefined"
    THEN [threw |-> FALSE, errorMap |-> << [map |-> "errorMap"] >>]
  ELSE [threw |-> FALSE,
        errorMap |-> << [map |-> "customMap",
                         required_error |-> parameters.required_error,
                         invalid_type_error |-> parameters.invalid_type_error] >>]

\* The customMap closure: the message for an issue.
customMap(map, issueCode, data, defaultError) ==
  IF issueCode # "invalid_type" THEN defaultError
  ELSE IF data.kind = "undefined" THEN Coalesce(map.required_error, defaultError)
  ELSE Coalesce(map.invalid_type_error, defaultError)

\* A variant of create that takes the base null for no base given.
createNullAsDefault(parameters) ==
  [threw |-> processCreateParameters(parameters).threw,
   def |-> [checks |-> << >>,
            typeName |-> "ZodBigNumber",
            coerce |-> IF parameters.coerce = "undefined" THEN FALSE
                       ELSE parameters.coerce = "true",
            base |-> IF parameters.base \in {<< >>, << << >> >>} THEN << 10 >>
                     ELSE parameters.base[1],
            errorMap |-> processCreateParameters(parameters).errorMap]]

\* ZodBigNumber.create(parameters): [threw, def].  parameters.coerce is
\* "undefined", "true" or "false"; parameters.base is << >> when not
\* given and otherwise << b >> with b the base as toString takes it
\* (<< >> for null, << n >> for the number n).
create(parameters) ==
  LET pc == processCreateParameters(parameters) IN
  [threw |-> pc.threw,
   def |-> [checks |-> << >>,
            typeName |-> "ZodBigNumber",
            coerce |-> IF parameters.coerce = "undefined" THEN FALSE
                       ELSE parameters.coerce = "true",
            base |-> IF parameters.base = << >> THEN << 10 >>
                     ELSE parameters.base[1],
            errorMap |-> pc.errorMap]]

\* An ErrorMessage argument: [form, message] with form "undefined",
\* "string" or "object".
messageToString(message) ==
  IF message.form = "string" THEN message.message
  ELSE IF message.form = "object" THEN message.message
  ELSE "undefined"

\* A variant of _addCheck that builds the instance from the defaults
\* instead of this._def.
_addCheckFresh(def, check) ==
  [receiver |-> def,
   instance |-> [checks |-> def.checks \o << check >>,
                 typeName |-> "ZodBigNumber", coerce |-> FALSE,
                 base |-> << 10 >>, errorMap |-> def.errorMap]]

\* A variant of _addCheck that pushes check onto the receiver's chain and
\* shares it with the instance.
_addCheckInPlace(def, check) ==
  [receiver |-> [def EXCEPT !.checks = def.checks \o << check >>],
   instance |-> [def EXCEPT !.checks = def.checks \o << check >>]]

\* this._addCheck(check) on the instance def: the instance it returns (a
\* copy of this._def with check appended to a copy of the chain) and the
\* receiver as the call leaves it.
_addCheck(def, check) ==
  [receiver |-> def,
   instance |-> [def EXCEPT !.checks = def.checks \o << check >>]]

gte(def, value, message) ==
  _addCheck(def, [inclusive |-> TRUE, kind |-> "min",
                  message |-> messageToString(message), value |-> value])

gt(def, value, message) ==
  _addCheck(def, [inclusive |-> FALSE, kind |-> "min",
                  message |-> messageToString(message), value |-> value])

lte(def, value, message) ==
  _addCheck(def, [inclusive |-> TRUE, kind |-> "max",
                  message |-> messageToString(message), value |-> value])

lt(def, value, message) ==
  _addCheck(def, [inclusive |-> FALSE, kind |-> "max",
                  message |-> messageToString(message), value |-> value])

int(def, message) ==
  _addCheck(def, [kind |-> "int", message |-> messageToString(message)])

\* A variant of positive that accepts zero.
positiveInclusive(def, message) ==
  _addCheck(def, [inclusive |-> TRUE, kind |-> "min",
                  message |-> messageToString(message), value |-> NumZero])

positive(def, message) ==
  _addCheck(def, [inclusive |-> FALSE, kind |-> "min",
                  message |-> messageToString(message), value |-> NumZero])

negative(def, message) ==
  _addCheck(def, [inclusive |-> FALSE, kind |-> "max",
                  message |-> messageToString(message), value |-> NumZero])

nonpositive(def, message) ==
  _addCheck(def, [inclusive |-> TRUE, kind |-> "max",
                  message |-> messageToString(message), value |-> NumZero])

nonnegative(def, message) ==
  _addCheck(def, [inclusive |-> TRUE, kind |-> "min",
                  message |-> messageToString(message), value |-> NumZero])

multipleOf(def, value, message) ==
  _addCheck(def, [kind |-> "multipleOf",
                  message |-> messageToString(message), value |-> value])

finite(def, message) ==
  _addCheck(def, [kind |-> "finite", message |-> messageToString(message)])

\* min = this.gte; max = this.lte; step = this.multipleOf
min(def, value, message) == gte(def, value, message)
max(def, value, message) == lte(def, value, message)
step(def, value, message) == multipleOf(def, value, message)

(***************************************************************************)
(* Bounds and the values the operations are called with                    *)
(***************************************************************************)
\* At most MaxValidators validator instances are built (SpecBuilder,
\* SpecCreate); a chain holds at most MaxChain checks (SpecEngine).
MaxValidators == 3
MaxChain == 2

NoMessage == [form |-> "undefined", message |-> "undefined"]
MessageArgs ==
  { NoMessage,
    [form |-> "string", message |-> "custom"],
    [form |-> "object", message |-> "custom"] }

\* Bounds given to gte, gt, lte, lt (and min, max), divisors given to
\* multipleOf (and step).
BoundValues == { Str(<< "3" >>) }
DivisorValues == { Str(<< "2" >>) }

\* The number primitives 3 and -9007199254740992 (-2^53, which has 16
\* significant digits and a magnitude above Number.MAX_SAFE_INTEGER).
NumThree == Num(1, << "3" >>, 1)
NumBelowSafe ==
  Num(-1, << "9", "0", "0", "7", "1", "9", "9", "2", "5", "4", "7", "4",
             "0", "9", "9", "2" >>, 16)

NoParameters ==
  [present |-> FALSE, coerce |-> "undefined", base |-> << >>,
   errorMap |-> "undefined", invalid_type_error |-> "undefined",
   required_error |-> "undefined"]

Parameters(coerce, base, errorMap, invalid_type_error, required_error) ==
  [present |-> TRUE, coerce |-> coerce, base |-> base, errorMap |-> errorMap,
   invalid_type_error |-> invalid_type_error,
   required_error |-> required_error]

OptionalStrings == {"undefined", "", "foo"}

\* create called with no parameters, or with coerce or base.
ConfigParameters ==
  { NoParameters,
    Parameters("true", << >>, "undefined", "undefined", "undefined"),
    Parameters("undefined", << << >> >>, "undefined", "undefined", "undefined"),
    Parameters("false", << << 2 >> >>, "undefined", "undefined", "undefined") }

\* create called with every combination of the error parameters.
ErrorParameters ==
  { Parameters("undefined", << >>, m, i, r) :
      m \in {"undefined", "fn"}, i \in OptionalStrings, r \in OptionalStrings }

CreateParameters == ConfigParameters \cup ErrorParameters

\* create as called for the validators the builder derives from.
BuilderParameters ==
  { NoParameters,
    Parameters("true", << << 2 >> >>, "undefined", "undefined", "undefined"),
    Parameters("undefined", << << >> >>, "undefined", "undefined", "undefined") }

DebugValues == {"false", "foo", "null"}

ExponentText == << "2", ".", "2", "2", "2", "2", "2", "2", "2", "2", "2", "2",
                   "2", "2", "2", "2", "2", "2", "e", "+", "5", "2" >>

\* Text inputs: numeric literals around the bounds 0 and 3, with signs,
\* fractions and exponents on both sides of the engine's notation
\* thresholds, the infinities, and text that is no number.
NumericTexts ==
  { << "0" >>, << "-", "0" >>, << "+", "0" >>, << "2" >>, << "3" >>,
    << "6" >>, << "-", "1" >>, << "1", "0" >>,
    << "2", ".", "9", "1" >>, << "+", "1", ".", "1" >>,
    << "-", "1", ".", "1" >>, << ".", "5" >>, << "3", ".", "0" >>,
    << "1", "e", "2" >>, << "1", "e", "+", "2", "1" >>,
    << "1", "e", "-", "7" >>, << "5", "e", "-", "2", "1" >>,
    ExponentText, STR_Infinity, << "-" >> \o STR_Infinity,
    << "-", "0", "x", "F", ".", "8" >>, << "\t", "5", "\n" >> }

NonNumericTexts ==
  { << "a", "a", "a" >>, << >>, << "1", "e" >>, << "+", "-", "1" >>, STR_NaN }

\* Inputs that are not text.
NonTextInputs ==
  { Num(1, << "2" >>, 1),
    Num(1, << "8", "2", "3", "4", "5", "6", "7", "8", "9", "1", "2", "3",
              "4", "5", "6", "2" >>, 15),
    NumNaN, Undefined, Null, PlainObject,
    BigNumberInstance(<< "2", ".", "9", "1" >>) }

Inputs ==
  { Str(t) : t \in NumericTexts \cup NonNumericTexts } \cup NonTextInputs

\* A builder call: the method, its value argument (NumZero when the
\* method takes none) and its message argument.
OpCall(op, value, message) == [op |-> op, value |-> value, message |-> message]

\* def.<op>(value, message): what _addCheck returns.
ApplyOp(def, opcall) ==
  CASE opcall.op = "gte" -> gte(def, opcall.value, opcall.message)
    [] opcall.op = "gt" -> gt(def, opcall.value, opcall.message)
    [] opcall.op = "lte" -> lte(def, opcall.value, opcall.message)
    [] opcall.op = "lt" -> lt(def, opcall.value, opcall.message)
    [] opcall.op = "min" -> min(def, opcall.value, opcall.message)
    [] opcall.op = "max" -> max(def, opcall.value, opcall.message)
    [] opcall.op = "multipleOf" -> multipleOf(def, opcall.value, opcall.message)
    [] opcall.op = "step" -> step(def, opcall.value, opcall.message)
    [] opcall.op = "int" -> int(def, opcall.message)
    [] opcall.op = "positive" -> positive(def, opcall.message)
    [] opcall.op = "negative" -> negative(def, opcall.message)
    [] opcall.op = "nonpositive" -> nonpositive(def, opcall.message)
    [] opcall.op = "nonnegative" -> nonnegative(def, opcall.message)
    [] opcall.op = "finite" -> finite(def, opcall.message)

RECURSIVE ApplyOps(_, _)
ApplyOps(def, opcalls) ==
  IF opcalls = << >> THEN def
  ELSE ApplyOp(ApplyOps(def, Take(opcalls, Len(opcalls) - 1)),
               opcalls[Len(opcalls)]).instance

\* The builder calls the engine is exercised with: the inclusive bounds
\* are given as text, the exclusive ones as number primitives.
EngineOpCalls ==
  { OpCall(op, v, NoMessage) : op \in {"gte", "lte"}, v \in BoundValues }
    \cup { OpCall(op, NumThree, NoMessage) : op \in {"gt", "lt"} }
    \cup { OpCall("multipleOf", v, NoMessage) : v \in DivisorValues }
    \cup { OpCall(op, NumZero, NoMessage) :
             op \in {"int", "positive", "negative", "nonpositive",
                     "nonnegative", "finite"} }

RECURSIVE SeqsUpTo(_, _)
SeqsUpTo(S, n) ==
  IF n = 0 THEN { << >> }
  ELSE LET shorter == SeqsUpTo(S, n - 1) IN
       shorter \cup { Append(q, x) : q \in shorter, x \in S }

(***************************************************************************)
(* State                                                                   *)
(***************************************************************************)
VARIABLES
  validators,  \* the validator instances built so far, each its _def
  origin,      \* history: for each instance, the parameters its root was
               \* created with, the instance it was derived from (0 for a
               \* root) and the builder calls that led to it
  DEBUG,       \* the ambient BigNumber.DEBUG toggle
  call,        \* << >>, or << the safeParse call that just ended >>
  thrown       \* << >>, or << the create call that just threw >>

vars == << validators, origin, DEBUG, call, thrown >>

Init ==
  /\ validators = << >>
  /\ origin = << >>
  /\ DEBUG = "false"
  /\ call = << >>
  /\ thrown = << >>

\* zBigNumber(parameters)
Create(parameters) ==
  /\ call = << >>
  /\ Len(validators) < MaxValidators
  /\ LET r == create(parameters) IN
     IF r.threw
       THEN /\ thrown' = << [parameters |-> parameters] >>
            /\ UNCHANGED << validators, origin >>
       ELSE /\ validators' = Append(validators, r.def)
            /\ origin' = Append(origin, [parameters |-> parameters,
                                         parent |-> 0, calls |-> << >>])
            /\ thrown' = << >>
  /\ UNCHANGED << DEBUG, call >>

\* validators[i].<op>(...) ended as r: it returned r.instance and left
\* the receiver as r.receiver.
Derive(i, r, opcall) ==
  /\ call = << >>
  /\ Len(validators) < MaxValidators
  /\ validators' = Append([validators EXCEPT ![i] = r.receiver], r.instance)
  /\ origin' = Append(origin, [parameters |-> origin[i].parameters,
                               parent |-> i,
                               calls |-> Append(origin[i].calls, opcall)])
  /\ thrown' = << >>
  /\ UNCHANGED << DEBUG, call >>

Call_gte(i, value, message) ==
  Derive(i, gte(validators[i], value, message), OpCall("gte", value, message))
Call_gt(i, value, message) ==
  Derive(i, gt(validators[i], value, message), OpCall("gt", value, message))
Call_lte(i, value, message) ==
  Derive(i, lte(validators[i], value, message), OpCall("lte", value, message))
Call_lt(i, value, message) ==
  Derive(i, lt(validators[i], value, message), OpCall("lt", value, message))
Call_min(i, value, message) ==
  Derive(i, min(validators[i], value, message), OpCall("min", value, message))
Call_max(i, value, message) ==
  Derive(i, max(validators[i], value, message), OpCall("max", value, message))
Call_multipleOf(i, value, message) ==
  Derive(i, multipleOf(validators[i], value, message),
         OpCall("multipleOf", value, message))
Call_step(i, value, message) ==
  Derive(i, step(validators[i], value, message), OpCall("step", value, message))
Call_int(i, message) ==
  Derive(i, int(validators[i], message), OpCall("int", NumZero, message))
Call_positive(i, message) ==
  Derive(i, positive(validators[i], message),
         OpCall("positive", NumZero, message))
Call_negative(i, message) ==
  Derive(i, negative(validators[i], message),
         OpCall("negative", NumZero, message))
Call_nonpositive(i, message) ==
  Derive(i, nonpositive(validators[i], message),
         OpCall("nonpositive", NumZero, message))
Call_nonnegative(i, message) ==
  Derive(i, nonnegative(validators[i], message),
         OpCall("nonnegative", NumZero, message))
Call_finite(i, message) ==
  Derive(i, finite(validators[i], message), OpCall("finite", NumZero, message))

\* The caller assigns BigNumber.DEBUG.
SetDEBUG(value) ==
  /\ call = << >>
  /\ value # DEBUG
  /\ DEBUG' = value
  /\ UNCHANGED << validators, origin, call, thrown >>

\* validators[i].safeParse(data), from the call to its end.
SafeParse(i, data) ==
  /\ call = << >>
  /\ call' = << [validator |-> i, data |-> data, before |-> DEBUG,
                 result |-> _parse(validators[i], data, DEBUG)] >>
  /\ DEBUG' = call'[1].result.debug
  /\ UNCHANGED << validators, origin, thrown >>

\* The caller has read the outcome.
Return ==
  /\ call # << >>
  /\ call' = << >>
  /\ UNCHANGED << validators, origin, DEBUG, thrown >>

(***************************************************************************)
(* SpecBuilder: validators are created and derived from one another.       *)
(***************************************************************************)
NextBuilder ==
  \/ \E parameters \in BuilderParameters : Create(parameters)
  \/ \E i \in 1..Len(validators), value \in BoundValues, message \in MessageArgs :
       Call_gte(i, value, message)
  \/ \E i \in 1..Len(validators), value \in BoundValues, message \in MessageArgs :
       Call_gt(i, value, message)
  \/ \E i \in 1..Len(validators), value \in BoundValues, message \in MessageArgs :
       Call_lte(i, value, message)
  \/ \E i \in 1..Len(validators), value \in BoundValues, message \in MessageArgs :
       Call_lt(i, value, message)
  \/ \E i \in 1..Len(validators), value \in BoundValues, message \in MessageArgs :
       Call_min(i, value, message)
  \/ \E i \in 1..Len(validators), value \in BoundValues, message \in MessageArgs :
       Call_max(i, value, message)
  \/ \E i \in 1..Len(validators), value \in DivisorValues, message \in MessageArgs :
       Call_multipleOf(i, value, message)
  \/ \E i \in 1..Len(validators), value \in DivisorValues, message \in MessageArgs :
       Call_step(i, value, message)
  \/ \E i \in 1..Len(validators), message \in MessageArgs : Call_int(i, message)
  \/ \E i \in 1..Len(validators), message \in MessageArgs :
       Call_positive(i, message)
  \/ \E i \in 1..Len(validators), message \in MessageArgs :
       Call_negative(i, message)
  \/ \E i \in 1..Len(validators), message \in MessageArgs :
       Call_nonpositive(i, message)
  \/ \E i \in 1..Len(validators), message \in MessageArgs :
       Call_nonnegative(i, message)
  \/ \E i \in 1..Len(validators), message \in MessageArgs :
       Call_finite(i, message)

SpecBuilder == Init /\ [][NextBuilder]_vars

(***************************************************************************)
(* SpecCreate: create is called with every combination of parameters.      *)
(***************************************************************************)
NextCreate == \E parameters \in CreateParameters : Create(parameters)

SpecCreate == Init /\ [][NextCreate]_vars

(***************************************************************************)
(* SpecEngine: one validator, built by create and a sequence of builder    *)
(* calls, validates every input under every value of the toggle.  A        *)
(* validator created with no parameters is also built with a bound that    *)
(* the engine's constructor refuses when the toggle is truthy, and with a  *)
(* divisor that is a number primitive.                                     *)
(***************************************************************************)
InitEngine ==
  /\ \E parameters \in ConfigParameters :
     \E opcalls \in
          SeqsUpTo(IF parameters = NoParameters
                     THEN EngineOpCalls
                            \cup { OpCall("gte", NumBelowSafe, NoMessage),
                                   OpCall("multipleOf", NumThree, NoMessage) }
                     ELSE EngineOpCalls,
                   MaxChain) :
       /\ validators = << ApplyOps(create(parameters).def, opcalls) >>
       /\ origin = << [parameters |-> parameters, parent |-> 0,
                       calls |-> opcalls] >>
  /\ DEBUG = "false"
  /\ call = << >>
  /\ thrown = << >>

NextEngine ==
  \/ \E value \in DebugValues : SetDEBUG(value)
  \/ \E data \in Inputs : SafeParse(1, data)
  \/ Return

SpecEngine == InitEngine /\ [][NextEngine]_vars

(***************************************************************************)
(* Properties                                                              *)
(***************************************************************************)
\* The validation call that just ended (none or one), the validator it
\* was made on and the parameters that validator's root was created with.
Calls == { call[k] : k \in 1..Len(call) }
DefOf(c) == validators[c.validator]
BuiltWith(c) == origin[c.validator].parameters

IsText(data) == data.kind = "string"

\* The number a text parses to, and whether it is one.
ParsedValue(text) == BigNumber(text, FALSE).bn
ParsesAsNumber(text) == ~isNaN(ParsedValue(text))

\* The issues of the constraints of a chain that the value v violates,
\* each constraint taken on its own, in chain order.
RECURSIVE ViolatedIssues(_, _)
ViolatedIssues(checks, v) ==
  IF checks = << >> THEN << >>
  ELSE CheckIssue(Head(checks), v, FALSE).issues
         \o ViolatedIssues(Tail(checks), v)

\* The number of significant digits of the decimal text of a native
\* number (plain notation): its digits without leading and trailing zeros.
SignificantDigits(text) ==
  Len(StripTrailingZeros(
        Drop(SelectSeq(text, LAMBDA ch : ch \in DigitChars),
             LeadingZeros(SelectSeq(text, LAMBDA ch : ch \in DigitChars)))))

\* The value has digits other than zero after the decimal point (a
\* coefficient has no trailing zeros).
HasFraction(v) == v.k = "fin" /\ Len(v.c) > v.e + 1

\* A constraint value that the engine's constructor refuses when the
\* toggle is enabled: a number primitive with more than 15 significant
\* digits whose magnitude is above 2^53 - 1 or is no integer, or text
\* that the engine does not read as a number.
RefusedWhenEnabled(value) ==
  IF value.kind = "number"
    THEN /\ SignificantDigits(value.text) > 15
         /\ \/ HasFraction(ParsedValue(value.text))
            \/ compare(ParsedValue(IF Head(value.text) = "-"
                                     THEN Tail(value.text) ELSE value.text),
                       MAX_SAFE_INTEGER) = 1
    ELSE value.kind = "string" /\ BigNumber(value.text, TRUE).threw

\* The position in a chain of the first constraint whose value is refused
\* when the toggle is enabled (0 when there is none).
FirstRefused(checks) ==
  LET refused == { k \in 1..Len(checks) :
                     /\ checks[k].kind \in {"min", "max", "multipleOf"}
                     /\ RefusedWhenEnabled(checks[k].value) } IN
  IF refused = {} THEN 0
  ELSE CHOOSE k \in refused : \A j \in refused : k <= j

\* A call made with the toggle enabled on a value that is a number ends by
\* raising at the first constraint whose value is refused (the toggle is
\* C7's matter): the position of that constraint (0 when the call does not
\* raise there), and the constraints that the call evaluated to their end.
RaisedAt(c) ==
  IF Truthy(c.before) THEN FirstRefused(DefOf(c).checks) ELSE 0
EvaluatedChecks(c) ==
  IF RaisedAt(c) = 0 THEN DefOf(c).checks
  ELSE Take(DefOf(c).checks, RaisedAt(c) - 1)

\* The base and the coerce flag that creation parameters ask for.
BaseGiven(parameters) ==
  IF parameters.base = << >> THEN << 10 >> ELSE parameters.base[1]
CoerceGiven(parameters) == parameters.coerce = "true"

\* C1: a validator built without coercion rejects every input that is not
\* text, whatever its chain, with exactly one invalid_type issue that
\* expects 'string' and reports the input's runtime type tag; no number is
\* constructed and no constraint is evaluated.
C1_NonTextRejected ==
  \A c \in Calls :
    (~CoerceGiven(BuiltWith(c)) /\ ~IsText(c.data)) =>
      /\ Failure(c.result)
      /\ c.result.issues = << [code |-> "invalid_type", expected |-> "string",
                               received |-> getParsedType(c.data)] >>
      /\ ~c.result.constructed
      /\ c.result.evaluated = 0

C1_Witness ==
  \E c \in Calls :
    /\ ~CoerceGiven(BuiltWith(c))
    /\ c.data.kind = "BigNumber"
    /\ Len(DefOf(c).checks) > 0
    /\ Failure(c.result)
    /\ c.result.issues[1].received = "object"

\* C2: with the engine's toggle disabled (the enabled toggle is C7's
\* matter), text that does not parse as a number fails with exactly one
\* issue whatever the chain, and none of the chain's constraints is
\* evaluated; with any toggle no constraint is evaluated.
C2_ParseFailureTerminal ==
  \A c \in Calls :
    (IsText(c.data) /\ ~ParsesAsNumber(c.data.text)) =>
      /\ c.result.evaluated = 0
      /\ ~Truthy(c.before) =>
           /\ Failure(c.result)
           /\ c.result.constructed
           /\ Len(c.result.issues) = 1
           /\ c.result.issues[1].code = "invalid_type"

C2_Witness ==
  \E c \in Calls :
    /\ c.data = Str(<< "a", "a", "a" >>)
    /\ ~Truthy(c.before)
    /\ \E k \in 1..Len(DefOf(c).checks) : DefOf(c).checks[k].kind = "int"
    /\ Len(DefOf(c).checks) > 1
    /\ Len(c.result.issues) = 1

\* A call on a text that parses as the number v returns the issues of the
\* constraints that v violates, in chain order, after evaluating them all;
\* when it raises at a constraint, the issues added are those of the
\* constraints before that one.
AllViolationsInOrder(c, v) ==
  ~isNaN(v) =>
    /\ c.result.issues = ViolatedIssues(EvaluatedChecks(c), v)
    /\ IF RaisedAt(c) = 0
         THEN /\ c.result.ended = "returned"
              /\ c.result.evaluated = Len(DefOf(c).checks)
              /\ Failure(c.result) <=> c.result.issues # << >>
              /\ Success(c.result) <=> c.result.issues = << >>
         ELSE /\ c.result.ended = "threw"
              /\ c.result.evaluated = RaisedAt(c)

\* C3: for text that parses as a number the issue list is exactly the
\* issues of the constraints the parsed value violates, one per violated
\* constraint and in chain order; every constraint is evaluated, no
\* violation ends the evaluation, and the outcome is a failure iff the
\* list is not empty.  (Only a constraint value that the engine refuses
\* under an enabled toggle ends the evaluation, by raising: C7's matter.)
C3_AllViolationsInOrder ==
  \A c \in Calls :
    IsText(c.data) => AllViolationsInOrder(c, ParsedValue(c.data.text))

C3_Witness ==
  \E c \in Calls :
    /\ IsText(c.data) /\ ParsesAsNumber(c.data.text)
    /\ Truthy(c.before)
    /\ Len(DefOf(c).checks) = 2
    /\ DefOf(c).checks[1] = DefOf(c).checks[2]
    /\ DefOf(c).checks[1].kind = "min"
    /\ DefOf(c).checks[1].value = NumThree
    /\ Len(c.result.issues) = 2
    /\ Failure(c.result)

\* A call on a text that parses as the number v, which violates no
\* constraint, succeeds with v written in the base asked for at creation.
ValueInBaseGiven(c, v) ==
  (~isNaN(v) /\ ViolatedIssues(DefOf(c).checks, v) = << >>) =>
    IF RaisedAt(c) = 0
      THEN /\ Success(c.result)
           /\ c.result.value = toString(v, BaseGiven(BuiltWith(c)))
      ELSE c.result.ended = "threw"

\* C4: every validator has the base given at construction (10 when none
\* was given) and the coerce flag given at construction, whatever builder
\* operations led to it; text that parses as a number and violates none of
\* its constraints succeeds with the parsed number rendered in that base.
\* (A call that raises at a constraint value the engine refuses under an
\* enabled toggle has no outcome: C7's matter.)
C4_ValueInBaseGiven ==
  /\ \A i \in 1..Len(validators) :
       /\ validators[i].base = BaseGiven(origin[i].parameters)
       /\ validators[i].coerce = CoerceGiven(origin[i].parameters)
  /\ \A c \in Calls :
       IsText(c.data) => ValueInBaseGiven(c, ParsedValue(c.data.text))

C4_Witness ==
  \E c \in Calls :
    /\ BuiltWith(c).base = << << 2 >> >>
    /\ Len(origin[c.validator].calls) > 0
    /\ c.data = Str(<< "1", "0" >>)
    /\ Success(c.result)
    /\ c.result.value = << "1", "0", "1", "0" >>

\* A call on a text that parses as the number v has a too_small (too_big)
\* issue for a min (max) constraint of its chain iff v compares with the
\* bound as below (above) it, or as equal to it when the bound is exclusive.
BoundSemantics(c, v) ==
  ~isNaN(v) =>
    /\ c.result.ended = (IF RaisedAt(c) = 0 THEN "returned" ELSE "threw")
    /\ \A k \in 1..Len(EvaluatedChecks(c)) :
         LET check == DefOf(c).checks[k]
             issues == c.result.issues IN
         /\ check.kind = "min" =>
              ((\E j \in 1..Len(issues) :
                  /\ issues[j].code = "too_small"
                  /\ issues[j].minimum = check.value
                  /\ issues[j].inclusive = check.inclusive)
               <=> compare(v, ParsedValue(check.value.text))
                     \in (IF check.inclusive THEN {-1} ELSE {-1, 0}))
         /\ check.kind = "max" =>
              ((\E j \in 1..Len(issues) :
                  /\ issues[j].code = "too_big"
                  /\ issues[j].maximum = check.value
                  /\ issues[j].inclusive = check.inclusive)
               <=> compare(v, ParsedValue(check.value.text))
                     \in (IF check.inclusive THEN {1} ELSE {1, 0}))

\* C5: a min constraint yields a too_small issue iff the value is below
\* the bound (inclusive) or not above it (exclusive); a max constraint
\* yields a too_big issue iff the value is above the bound (inclusive) or
\* not below it (exclusive); the issue carries the bound and the
\* inclusivity flag.  This holds of every constraint that the call
\* evaluated to its end, the bound being text or a number primitive.
C5_BoundSemantics ==
  \A c \in Calls :
    IsText(c.data) => BoundSemantics(c, ParsedValue(c.data.text))

C5_Witness ==
  \E c \in Calls :
    /\ c.data = Str(<< "3", ".", "0" >>)
    /\ Len(DefOf(c).checks) = 2
    /\ DefOf(c).checks[1] =
         [inclusive |-> FALSE, kind |-> "min", message |-> "undefined",
          value |-> NumThree]
    /\ DefOf(c).checks[2] =
         [inclusive |-> TRUE, kind |-> "max", message |-> "undefined",
          value |-> Str(<< "3" >>)]
    /\ Len(c.result.issues) = 1
    /\ c.result.issues[1].code = "too_small"

\* The constraint a builder call adds, and the chain a sequence of calls
\* adds one by one.
ConstraintOf(opcall) ==
  ApplyOp(create(NoParameters).def, opcall).instance.checks[1]
PathChain(calls) == [j \in 1..Len(calls) |-> ConstraintOf(calls[j])]

\* C6: at every moment the chain of every validator built so far is
\* exactly the constraints added along its own derivation path, in the
\* order they were added; so each operation appends one constraint to a
\* copy and changes no validator returned earlier.
C6_ChainIsDerivationPath ==
  \A i \in 1..Len(validators) :
    validators[i].checks = PathChain(origin[i].calls)

C6_Witness ==
  /\ Len(validators) = 3
  /\ origin[2].parent = 1 /\ origin[3].parent = 1
  /\ validators[1].checks = << >>
  /\ Len(validators[2].checks) = 1 /\ Len(validators[3].checks) = 1
  /\ validators[2].checks # validators[3].checks

\* C7: for every value of the toggle, every validator and every input, a
\* validation call ends by returning an outcome, never by raising.
C7_AlwaysReturns ==
  \A c \in Calls : c.result.ended = "returned"

\* C8: after a validation call, on every exit path, the toggle has the
\* value it had before the call.
C8_ToggleRestored ==
  \A c \in Calls : DEBUG = c.before /\ c.result.debug = c.before

C8_Witness ==
  \E c \in Calls :
    /\ c.before = "null"
    /\ c.data = Str(<< "a", "a", "a" >>)
    /\ Failure(c.result)
    /\ DEBUG = "null"

\* errorMap given together with invalid_type_error or required_error (any
\* string, the empty one included).
Combined(parameters) ==
  /\ parameters.present
  /\ parameters.errorMap # "undefined"
  /\ \/ parameters.invalid_type_error # "undefined"
     \/ parameters.required_error # "undefined"

\* C9: create with errorMap together with invalid_type_error or
\* required_error raises and produces no validator; create with any other
\* parameters does not raise.
C9_CombinationRaises ==
  /\ \A i \in 1..Len(origin) : ~Combined(origin[i].parameters)
  /\ \A k \in 1..Len(thrown) : Combined(thrown[k].parameters)

NullBaseGiven(parameters) == parameters.base = << << >> >>

\* C10 as stated: with the base null given at construction, text that
\* parses as a number and passes the constraints is returned unchanged.
C10_TextUnchanged ==
  \A c \in Calls :
    (/\ NullBaseGiven(BuiltWith(c))
     /\ IsText(c.data) /\ ParsesAsNumber(c.data.text)
     /\ Success(c.result)) =>
      c.result.value = c.data.text

\* C10, amended: the base null given at construction is kept (not
\* replaced by 10), and text that parses as a number and passes the
\* constraints succeeds with the engine's default text of the parsed
\* number: no conversion to a base and no rounding are applied, so the
\* value denotes the number that was parsed, but the text is normalised
\* (exponent notation exactly when the exponent is at least 21 or at most
\* -7); '2.2222222222222222e+52' is returned as is.
C10_NullBaseDefaultText ==
  /\ \A i \in 1..Len(validators) :
       NullBaseGiven(origin[i].parameters) => validators[i].base = << >>
  /\ \A c \in Calls :
       (/\ NullBaseGiven(BuiltWith(c))
        /\ IsText(c.data) /\ ParsesAsNumber(c.data.text)
        /\ Success(c.result)) =>
         /\ c.result.value = toString(ParsedValue(c.data.text), << >>)
         /\ compare(ParsedValue(c.result.value), ParsedValue(c.data.text)) = 0
         /\ c.data.text = ExponentText => c.result.value = ExponentText

C10_Witness ==
  \E c \in Calls :
    /\ NullBaseGiven(BuiltWith(c))
    /\ c.data = Str(<< "1", "e", "2" >>)
    /\ Success(c.result)
    /\ c.result.value = << "1", "0", "0" >>

\* An issue list that is the one invalid_type issue with these tags.
OneInvalidType(issues, expected, received) ==
  /\ Len(issues) = 1
  /\ issues[1].code = "invalid_type"
  /\ "expected" \in DOMAIN issues[1] /\ issues[1].expected = expected
  /\ "received" \in DOMAIN issues[1] /\ issues[1].received = received

\* C11: with coerce enabled, a native number with more than 15
\* significant digits fails with exactly one invalid_type issue (expected
\* 'number', received 'nan'); one with at most 15 significant digits that
\* violates no constraint succeeds with its text in the validator's base.
C11_CoerceLongNumberFails ==
  \A c \in Calls :
    (CoerceGiven(BuiltWith(c)) /\ c.data.kind = "number") =>
      IF SignificantDigits(c.data.text) > 15
        THEN /\ Failure(c.result)
             /\ OneInvalidType(c.result.issues, "number", "nan")
        ELSE ViolatedIssues(DefOf(c).checks, ParsedValue(c.data.text)) = << >>
               => /\ Success(c.result)
                  /\ c.result.value =
                       toString(ParsedValue(c.data.text), DefOf(c).base)

\* The base operation call that a derived operation call stands for.
BaseCall(opcall) ==
  CASE opcall.op = "min" -> OpCall("gte", opcall.value, opcall.message)
    [] opcall.op = "max" -> OpCall("lte", opcall.value, opcall.message)
    [] opcall.op = "step" -> OpCall("multipleOf", opcall.value, opcall.message)
    [] opcall.op = "positive" -> OpCall("gt", NumZero, opcall.message)
    [] opcall.op = "negative" -> OpCall("lt", NumZero, opcall.message)
    [] opcall.op = "nonnegative" -> OpCall("gte", NumZero, opcall.message)
    [] opcall.op = "nonpositive" -> OpCall("lte", NumZero, opcall.message)
    [] OTHER -> opcall

ZeroTexts == { << "0" >>, << "+", "0" >>, << "-", "0" >> }

\* An issue of the sign operation op (a bound issue against the number 0).
SignIssue(issue, op) ==
  /\ issue.code = (IF op \in {"positive", "nonnegative"} THEN "too_small"
                   ELSE "too_big")
  /\ (IF issue.code = "too_small" THEN issue.minimum ELSE issue.maximum)
       = NumZero
  /\ issue.inclusive = (op \in {"nonnegative", "nonpositive"})

\* C12: every derived builder operation yields what its base operation
\* yields, for every validator, bound and message: min as gte, max as lte,
\* step as multipleOf, positive as gt(0), negative as lt(0), nonnegative as
\* gte(0), nonpositive as lte(0); the validator itself is what the base
\* operations of its derivation path build; and zero, written '0', '+0' or
\* '-0', gets an issue from positive and negative and none from
\* nonnegative and nonpositive.
\* (A call leaves the validators as they are, so the builder operations
\* are compared on the validators between calls.  The k-th constraint of a
\* chain is the one that the k-th call added; a call that raises at a
\* constraint value the engine refuses under an enabled toggle evaluated
\* the constraints before that one only.)
C12_DerivedAsBase ==
  /\ call = << >> => \A i \in 1..Len(validators) :
       /\ \A message \in MessageArgs :
            /\ \A value \in BoundValues \cup DivisorValues
                              \cup {NumZero, NumThree, NumBelowSafe} :
                 /\ min(validators[i], value, message)
                      = gte(validators[i], value, message)
                 /\ max(validators[i], value, message)
                      = lte(validators[i], value, message)
                 /\ step(validators[i], value, message)
                      = multipleOf(validators[i], value, message)
            /\ positive(validators[i], message)
                 = gt(validators[i], NumZero, message)
            /\ negative(validators[i], message)
                 = lt(validators[i], NumZero, message)
            /\ nonnegative(validators[i], message)
                 = gte(validators[i], NumZero, message)
            /\ nonpositive(validators[i], message)
                 = lte(validators[i], NumZero, message)
       /\ validators[i] =
            ApplyOps(create(origin[i].parameters).def,
                     [j \in 1..Len(origin[i].calls) |->
                        BaseCall(origin[i].calls[j])])
  /\ \A c \in Calls :
       (IsText(c.data) /\ c.data.text \in ZeroTexts) =>
         /\ c.result.ended = (IF RaisedAt(c) = 0 THEN "returned" ELSE "threw")
         /\ \A op \in {"positive", "negative", "nonnegative", "nonpositive"} :
              (\E k \in 1..Len(EvaluatedChecks(c)) :
                 origin[c.validator].calls[k].op = op) =>
                ((\E j \in 1..Len(c.result.issues) :
                    SignIssue(c.result.issues[j], op))
                 <=> op \in {"positive", "negative"})
         /\ (\A k \in 1..Len(origin[c.validator].calls) :
               origin[c.validator].calls[k].op
                 \in {"nonnegative", "nonpositive"}) => Success(c.result)

C12_Witness ==
  \E c \in Calls :
    /\ c.data = Str(<< "-", "0" >>)
    /\ Len(origin[c.validator].calls) = 2
    /\ origin[c.validator].calls[1].op = "nonnegative"
    /\ origin[c.validator].calls[2].op = "positive"
    /\ Len(c.result.issues) = 1
    /\ SignIssue(c.result.issues[1], "positive")

\* A call whose input, as text, passed the numeric parse.
PassedParse(c) == c.result.constructed /\ ParsesAsNumber(c.data.text)

\* How many constraints of the chain are of this kind, and the issues of
\* this code in an issue list.
ChecksOfKind(checks, kind) == { k \in 1..Len(checks) : checks[k].kind = kind }
IssuesOfCode(issues, code) == { j \in 1..Len(issues) : issues[j].code = code }

IntIssues(issues) ==
  { j \in IssuesOfCode(issues, "invalid_type") :
      /\ "expected" \in DOMAIN issues[j] /\ issues[j].expected = "integer"
      /\ "received" \in DOMAIN issues[j] /\ issues[j].received = "float" }

\* When the call c constructed the number v from its input: it has one int
\* issue per int constraint that it evaluated if v has a non-zero fractional
\* component (or, with infinite set, is an infinity), and none otherwise.
IntIssuesIff(c, v, infinite) ==
  (c.result.constructed /\ ~isNaN(v)) =>
    Cardinality(IntIssues(c.result.issues)) =
      (IF HasFraction(v) \/ (infinite /\ v.k = "inf")
         THEN Cardinality(ChecksOfKind(EvaluatedChecks(c), "int")) ELSE 0)

\* C13 as stated: for every value that passes the numeric parse, the
\* infinities included, an int constraint yields an issue (invalid_type,
\* expected 'integer', received 'float') iff the value has a non-zero
\* fractional component.
C13_IntIffFraction ==
  \A c \in Calls :
    IntIssuesIff(c, ParsedValue(c.data.text), FALSE)

\* C13, amended: for every value that passes the numeric parse, an int
\* constraint yields an issue (invalid_type, expected 'integer', received
\* 'float') iff the value is not a finite integer: it has a non-zero
\* fractional component or it is positive or negative infinity.
C13_IntIffNotFiniteInteger ==
  \A c \in Calls :
    IntIssuesIff(c, ParsedValue(c.data.text), TRUE)

C13_Witness ==
  \E c \in Calls :
    /\ c.data = Str(<< "-" >> \o STR_Infinity)
    /\ DefOf(c).checks = << [kind |-> "int", message |-> "undefined"] >>
    /\ Failure(c.result)
    /\ IntIssues(c.result.issues) = {1}

\* The two texts that denote the infinities.
InfinityTexts == { STR_Infinity, << "-" >> \o STR_Infinity }

\* Some min or max constraint of the chain is violated by the value v.
BoundViolated(checks, v) ==
  \E k \in 1..Len(checks) :
    /\ checks[k].kind \in {"min", "max"}
    /\ CheckIssue(checks[k], v, FALSE).issues # << >>

\* A call that constructed the number v from its input has one not_finite
\* issue per finite constraint that it evaluated when v is an infinity, and
\* none otherwise.
FiniteIssuesIff(c, v) ==
  (c.result.constructed /\ ~isNaN(v)) =>
    Cardinality(IssuesOfCode(c.result.issues, "not_finite")) =
      (IF v.k = "inf"
         THEN Cardinality(ChecksOfKind(EvaluatedChecks(c), "finite")) ELSE 0)

FiniteIffInfinite ==
  \A c \in Calls : FiniteIssuesIff(c, ParsedValue(c.data.text))

\* C14 as stated: 'Infinity' and '-Infinity' pass the numeric parse; with a
\* chain that has no finite constraint and no violated bound they validate
\* successfully; a finite constraint yields a not_finite issue iff the
\* parsed value is positive or negative infinity.
C14_InfinityNeedsFinite ==
  /\ \A c \in Calls :
       (IsText(c.data) /\ c.data.text \in InfinityTexts) =>
         /\ PassedParse(c)
         /\ ( /\ ChecksOfKind(DefOf(c).checks, "finite") = {}
              /\ ~BoundViolated(DefOf(c).checks, ParsedValue(c.data.text)) )
              => Success(c.result)
  /\ FiniteIffInfinite

\* C14, amended: 'Infinity' and '-Infinity' pass the numeric parse; with a
\* chain that has no finite, int or multipleOf constraint and no violated
\* bound they validate successfully and the text is returned, unless the
\* call raises at a constraint value that the engine refuses under an
\* enabled toggle; a finite constraint that is evaluated yields a
\* not_finite issue iff the parsed value is positive or negative infinity.
C14_InfinityPassesParse ==
  /\ \A c \in Calls :
       (IsText(c.data) /\ c.data.text \in InfinityTexts) =>
         /\ PassedParse(c)
         /\ ( /\ ChecksOfKind(DefOf(c).checks, "finite") = {}
              /\ ChecksOfKind(DefOf(c).checks, "int") = {}
              /\ ChecksOfKind(DefOf(c).checks, "multipleOf") = {}
              /\ ~BoundViolated(DefOf(c).checks, ParsedValue(c.data.text))
              /\ RaisedAt(c) = 0 )
              => /\ Success(c.result)
                 /\ c.result.value = c.data.text
  /\ FiniteIffInfinite

C14_Witness ==
  \E c \in Calls :
    /\ c.data = Str(<< "-" >> \o STR_Infinity)
    /\ Len(DefOf(c).checks) = 2
    /\ DefOf(c).checks[1].kind = "max"
    /\ DefOf(c).checks[2].kind = "max"
    /\ DefOf(c).checks[1].value # DefOf(c).checks[2].value
    /\ Success(c.result)
    /\ c.result.value = << "-" >> \o STR_Infinity

\* The remainder of the natural number written by the first n digits of
\* ds, divided by m, by long division: the remainder of the digits before
\* the n-th, times ten, plus the n-th digit.
RECURSIVE LongRemainder(_, _, _)
LongRemainder(ds, n, m) ==
  IF n = 0 THEN 0
  ELSE (10 * LongRemainder(ds, n - 1, m) + DigitVal(ds[n])) % m

\* v mod d is zero under exact modulo: v is finite, d is finite and not
\* zero, and v = q * d for an integer q.  With v = X * 10^kx and
\* d = Y * 10^ky, X and Y not ending in 0, a non-zero v is such a multiple
\* iff kx >= ky and Y divides X * 10^(kx - ky).
ExactModuloIsZero(v, d) ==
  /\ v.k = "fin" /\ d.k = "fin" /\ ~IsZeroBN(d)
  /\ \/ IsZeroBN(v)
     \/ LET kx == v.e - Len(v.c) + 1
            ky == d.e - Len(d.c) + 1 IN
        /\ kx >= ky
        /\ LongRemainder(v.c \o Zeros(kx - ky), Len(v.c) + kx - ky,
                         TextToNat(d.c)) = 0

\* The not_multiple_of issues of an issue list that carry the divisor d.
MultipleOfIssues(issues, d) ==
  { j \in IssuesOfCode(issues, "not_multiple_of") : issues[j].multipleOf = d }

\* The multipleOf constraints of a chain whose divisor is d.
MultipleOfChecks(checks, d) ==
  { k \in ChecksOfKind(checks, "multipleOf") : checks[k].value = d }

\* The divisors of the multipleOf constraints of a chain.
DivisorsOf(checks) ==
  { checks[k].value : k \in ChecksOfKind(checks, "multipleOf") }

\* When the call c constructed the number v from its input: for every
\* divisor d it has one not_multiple_of issue carrying d per multipleOf(d)
\* constraint that it evaluated if v mod d is not zero, and none otherwise.
MultipleOfIssuesIff(c, v) ==
  (c.result.constructed /\ ~isNaN(v)) =>
    /\ \A d \in DivisorsOf(EvaluatedChecks(c)) :
         Cardinality(MultipleOfIssues(c.result.issues, d)) =
           (IF ExactModuloIsZero(v, ParsedValue(d.text)) THEN 0
            ELSE Cardinality(MultipleOfChecks(EvaluatedChecks(c), d)))
    /\ \A j \in IssuesOfCode(c.result.issues, "not_multiple_of") :
         c.result.issues[j].multipleOf \in DivisorsOf(EvaluatedChecks(c))

\* A call with the text on a validator whose chain is multipleOf(d) alone.
MultipleOfAlone(c, text, d) ==
  /\ c.data = Str(text)
  /\ Len(DefOf(c).checks) = 1
  /\ DefOf(c).checks[1].kind = "multipleOf"
  /\ ParsedValue(DefOf(c).checks[1].value.text) = ParsedValue(d)

\* C15: for every parsed value v and divisor d, a multipleOf(d) constraint
\* yields an issue iff v mod d is not zero under exact modulo (6 passes
\* multipleOf(3), 3 fails multipleOf(2)); the issue is of kind
\* not_multiple_of and carries the divisor d.
C15_MultipleOfExactModulo ==
  \A c \in Calls :
    /\ MultipleOfIssuesIff(c, ParsedValue(c.data.text))
    /\ MultipleOfAlone(c, << "6" >>, << "3" >>) => Success(c.result)
    /\ MultipleOfAlone(c, << "3" >>, << "2" >>) => Failure(c.result)

C15_Witness ==
  \E c \in Calls :
    /\ c.data = Str(<< "3" >>)
    /\ Len(DefOf(c).checks) = 2
    /\ DefOf(c).checks[1].kind = "multipleOf"
    /\ DefOf(c).checks[1].value = NumThree
    /\ DefOf(c).checks[2].kind = "multipleOf"
    /\ DefOf(c).checks[2].value = Str(<< "2" >>)
    /\ Failure(c.result)
    /\ Len(c.result.issues) = 1
    /\ MultipleOfIssues(c.result.issues, Str(<< "2" >>)) = {1}

\* The text of the arithmetic engine's diagnostic for a text that is not a
\* number.
NotANumberMessage(text) ==
  << "N", "o", "t", " ", "a", " ", "n", "u", "m", "b", "e", "r", ":", " " >>
    \o text

\* C16: the single issue produced for text that is not a valid numeric
\* literal has kind invalid_type, expected 'number', received 'nan', and a
\* message 'Not a number: <text>' that names the offending text.
C16_NotANumberIssue ==
  \A c \in Calls :
    (IsText(c.data) /\ ~ParsesAsNumber(c.data.text)
       /\ c.result.ended = "returned") =>
      /\ Len(c.result.issues) = 1
      /\ c.result.issues[1].code = "invalid_type"
      /\ "expected" \in DOMAIN c.result.issues[1]
      /\ c.result.issues[1].expected = "number"
      /\ "received" \in DOMAIN c.result.issues[1]
      /\ c.result.issues[1].received = "nan"
      /\ c.result.issues[1].message = NotANumberMessage(c.data.text)

=============================================================================
